---- MODULE Spec2Model ----
(***************************************************************************)
(* AstraMetaDataStore (superduperdb/backends/astradb/metadata.py): the     *)
(* metadata store that keeps component records, lineage edges, job records *)
(* and key/value metadata in the document collections of one database.     *)
(*                                                                         *)
(* A collection is the sequence of its documents in insertion order; a     *)
(* document is a function from field names to values, so that a field can  *)
(* be absent.  Every store method is one action; the read-only methods are *)
(* operators over the current collections.                                 *)
(***************************************************************************)
EXTENDS Integers, Sequences, FiniteSets, TLC

VARIABLES component_collection, parent_child_mappings, job_collection,
          meta_collection, db, pc, last

vars == <<component_collection, parent_child_mappings, job_collection,
          meta_collection, db, pc, last>>

\* The database: the documents of the four collections the store writes, and
\* the names of the collections that exist (db).
collections == <<component_collection, parent_child_mappings, job_collection,
                 meta_collection, db>>

----------------------------------------------------------------------------
(* Bounds of the model.                                                    *)

\* Documents held by all collections together (registry specifications).
MaxDocs == 3
\* Job records held (job specification).
MaxJobs == 2
\* Messages held by all job streams together (job specification).
MaxOutput == 2

----------------------------------------------------------------------------
(* Values.                                                                 *)

\* Python's None as a method result.
None == [none |-> TRUE]
\* version: Optional[int] = None in _component_used.
NoVersion == -1

\* The exceptions the store raises, and normal return.
Returned == "returned"
InUse == "Exception: Component version already in use in other components!"
InvalidArgument == "ValueError"
NotFound == "FileNotFoundError"
\* An error of the document store, which no method catches.
BackendError == "backend error"

TypeIds == {"model", "dataset"}
Identifiers == {"clf", "x"}
Versions == {0, 1}

Key(type_id, identifier, version) ==
    [type_id |-> type_id, identifier |-> identifier, version |-> version]

\* The component versions callers register.
ComponentKeys == {Key("model", "clf", 0), Key("model", "clf", 1),
                  Key("dataset", "x", 0)}
\* The keys callers hide, replace, update and delete: those, and one never stored.
CalledKeys == ComponentKeys \cup {Key("dataset", "clf", 1)}

\* Component.make_unique_id: "type_id/identifier/version".
make_unique_id(type_id, identifier, version) ==
    type_id \o "/" \o identifier \o "/" \o ToString(version)

UniqueId(k) == make_unique_id(k.type_id, k.identifier, k.version)

\* doc with field set to value ({'$set': {field: value}}, or info[field] = value).
SetField(doc, field, value) ==
    [f \in DOMAIN doc \cup {field} |-> IF f = field THEN value ELSE doc[f]]

----------------------------------------------------------------------------
(* The document collections the store calls.  A filter is a set of         *)
(* clauses ('$or'); a clause asks some fields to equal given values (eq)   *)
(* and some fields not to exist (absent: {'$exists': 0}).                  *)

Eq(fields) == {[eq |-> fields, absent |-> {}]}

MatchesClause(doc, clause) ==
    /\ \A f \in DOMAIN clause.eq : f \in DOMAIN doc /\ doc[f] = clause.eq[f]
    /\ \A f \in clause.absent : f \notin DOMAIN doc

Matches(doc, filter) == \E clause \in filter : MatchesClause(doc, clause)

insert_one(coll, document) == Append(coll, document)

find(coll, filter) == SelectSeq(coll, LAMBDA d : Matches(d, filter))

find_one(coll, filter) ==
    LET found == find(coll, filter)
    IN  IF found = <<>> THEN None ELSE Head(found)

count_documents(coll, filter) == Len(find(coll, filter))

delete_many(coll, filter) == SelectSeq(coll, LAMBDA d : ~Matches(d, filter))

\* Position of the first document matching filter, 0 when there is none.
FirstMatch(coll, filter) ==
    IF \E n \in 1..Len(coll) : Matches(coll[n], filter)
    THEN CHOOSE n \in 1..Len(coll) :
            /\ Matches(coll[n], filter)
            /\ \A m \in 1..(n - 1) : ~Matches(coll[m], filter)
    ELSE 0

\* update_one with {'$set': {field: value}}: the first match only.
update_one_set(coll, filter, field, value) ==
    IF FirstMatch(coll, filter) = 0 THEN coll
    ELSE [coll EXCEPT ![FirstMatch(coll, filter)] = SetField(@, field, value)]

\* update_one with {'$push': {field: value}}: appends to the array, creating it.
update_one_push(coll, filter, field, value) ==
    IF FirstMatch(coll, filter) = 0 THEN coll
    ELSE [coll EXCEPT ![FirstMatch(coll, filter)] =
            SetField(@, field,
                     IF field \in DOMAIN @ THEN Append(@[field], value)
                     ELSE <<value>>)]

\* find_one_and_replace: the first match becomes the replacement, whole.
find_one_and_replace(coll, filter, replacement) ==
    IF FirstMatch(coll, filter) = 0 THEN coll
    ELSE [coll EXCEPT ![FirstMatch(coll, filter)] = replacement]

----------------------------------------------------------------------------
(* The store.                                                              *)

\* The last call: the method, its arguments, how it ended, and how many lineage
\* edges and component records its deletes removed.
Call(op, args, outcome, edges, records) ==
    [op |-> op, args |-> args, outcome |-> outcome, edges |-> edges,
     records |-> records]

\* Where a call of delete_component_version made store call by store call
\* stands: nowhere (Idle), or before the store call named by at, with the key it
\* was called for and the number of lineage edges it has removed.
Idle == [at |-> "idle"]

\* The five collections __init__ takes from the database.
ManagedCollections ==
    {"_meta", "_cdc_tables", "_objects", "_jobs", "_parent_child_mappings"}

\* __init__: the collections of a fresh database, set up and empty.
Init ==
    /\ component_collection = <<>>
    /\ parent_child_mappings = <<>>
    /\ job_collection = <<>>
    /\ meta_collection = <<>>
    /\ db = ManagedCollections
    /\ pc = Idle
    /\ last = Call("__init__", <<>>, Returned, 0, 0)

\* db.delete_collection(name): the collection is no longer in the database.
delete_collection(database, name) == database \ {name}

\* click.confirm is asked only when force is false, and its answer decides only
\* whether 'Aborting...' is logged: the four delete_collection calls follow on
\* every path.  confirm is the answer the prompt gives when asked.
drop(force, confirm) ==
    /\ db' = delete_collection(
                delete_collection(
                   delete_collection(
                      delete_collection(db, "_meta"),
                      "_objects"),
                   "_jobs"),
                "_parent_child_mappings")
    /\ meta_collection' = <<>>
    /\ component_collection' = <<>>
    /\ job_collection' = <<>>
    /\ parent_child_mappings' = <<>>
    /\ last' = Call("drop",
                  [force |-> force, confirm |-> confirm,
                   logged |-> IF ~force /\ ~confirm THEN "Aborting..." ELSE ""],
                  Returned, 0, 0)
    /\ UNCHANGED pc

create_parent_child(parent, child) ==
    /\ parent_child_mappings' =
          insert_one(parent_child_mappings, [parent |-> parent, child |-> child])
    /\ last' = Call("create_parent_child", [parent |-> parent, child |-> child],
                  Returned, 0, 0)
    /\ UNCHANGED <<component_collection, job_collection, meta_collection, db, pc>>

\* The insert that stores the record as given, hidden field or not.
create_component_verbatim(info) ==
    /\ component_collection' = insert_one(component_collection, info)
    /\ last' = Call("create_component", [info |-> info], Returned, 0, 0)
    /\ UNCHANGED <<parent_child_mappings, job_collection, meta_collection, db, pc>>

create_component(info) ==
    /\ component_collection' =
          insert_one(component_collection,
                     IF "hidden" \notin DOMAIN info
                     THEN SetField(info, "hidden", FALSE)
                     ELSE info)
    /\ last' = Call("create_component", [info |-> info], Returned, 0, 0)
    /\ UNCHANGED <<parent_child_mappings, job_collection, meta_collection, db, pc>>

create_job(info) ==
    /\ job_collection' = insert_one(job_collection, info)
    /\ last' = Call("create_job", [info |-> info], Returned, 0, 0)
    /\ UNCHANGED <<component_collection, parent_child_mappings, meta_collection, db, pc>>

get_job(identifier) == find_one(job_collection, Eq([identifier |-> identifier]))

create_metadata(key, value) ==
    /\ meta_collection' = insert_one(meta_collection, [key |-> key, value |-> value])
    /\ last' = Call("create_metadata", [key |-> key, value |-> value], Returned, 0, 0)
    /\ UNCHANGED <<component_collection, parent_child_mappings, job_collection, db, pc>>

get_metadata(key) == find_one(meta_collection, Eq([key |-> key]))

update_metadata(key, value) ==
    /\ meta_collection' = update_one_set(meta_collection, Eq([key |-> key]),
                                         "value", value)
    /\ last' = Call("update_metadata", [key |-> key, value |-> value], Returned, 0, 0)
    /\ UNCHANGED <<component_collection, parent_child_mappings, job_collection, db, pc>>

StartsWith(s, prefix) ==
    Len(s) >= Len(prefix) /\ SubSeq(s, 1, Len(prefix)) = prefix

component_version_has_parents(type_id, identifier, version) ==
    count_documents(parent_child_mappings,
                    Eq([child |-> make_unique_id(type_id, identifier, version)]))

\* The usage guard asking the lineage edges instead of the members fields.
_component_used_by_lineage(type_id, identifier, version) ==
    component_version_has_parents(type_id, identifier, version) > 0

\* count_documents(filter={'members': members}) > 0, members being the regex
\* ^identifier/type_id when no version is given and the unique id otherwise.
_component_used(type_id, identifier, version) ==
    IF version = NoVersion
    THEN \E n \in 1..Len(component_collection) :
            /\ "members" \in DOMAIN component_collection[n]
            /\ StartsWith(component_collection[n].members,
                          identifier \o "/" \o type_id)
    ELSE count_documents(
            component_collection,
            Eq([members |-> make_unique_id(type_id, identifier, version)])) > 0

\* The delete that leaves the outgoing lineage edges in place.
delete_component_version_keeping_edges(type_id, identifier, version) ==
    IF _component_used(type_id, identifier, version)
    THEN /\ last' = Call("delete_component_version", Key(type_id, identifier, version),
                         InUse, 0, 0)
         /\ UNCHANGED <<collections, pc>>
    ELSE /\ component_collection' =
               delete_many(component_collection,
                           Eq([identifier |-> identifier, type_id |-> type_id,
                               version |-> version]))
         /\ last' = Call("delete_component_version", Key(type_id, identifier, version),
                         Returned, 0,
                         Len(component_collection) - Len(component_collection'))
         /\ UNCHANGED <<parent_child_mappings, job_collection, meta_collection, db, pc>>

\* The delete whose record filter leaves out the version.
delete_component_version_every_version(type_id, identifier, version) ==
    IF _component_used(type_id, identifier, version)
    THEN /\ last' = Call("delete_component_version", Key(type_id, identifier, version),
                         InUse, 0, 0)
         /\ UNCHANGED <<collections, pc>>
    ELSE /\ parent_child_mappings' =
               delete_many(parent_child_mappings,
                           Eq([parent |-> make_unique_id(type_id, identifier, version)]))
         /\ component_collection' =
               delete_many(component_collection,
                           Eq([identifier |-> identifier, type_id |-> type_id]))
         /\ last' = Call("delete_component_version", Key(type_id, identifier, version),
                         Returned,
                         Len(parent_child_mappings) - Len(parent_child_mappings'),
                         Len(component_collection) - Len(component_collection'))
         /\ UNCHANGED <<job_collection, meta_collection, db, pc>>

delete_component_version(type_id, identifier, version) ==
    IF _component_used(type_id, identifier, version)
    THEN /\ last' = Call("delete_component_version", Key(type_id, identifier, version),
                         InUse, 0, 0)
         /\ UNCHANGED <<collections, pc>>
    ELSE /\ parent_child_mappings' =
               delete_many(parent_child_mappings,
                           Eq([parent |-> make_unique_id(type_id, identifier, version)]))
         /\ component_collection' =
               delete_many(component_collection,
                           Eq([identifier |-> identifier, type_id |-> type_id,
                               version |-> version]))
         /\ last' = Call("delete_component_version", Key(type_id, identifier, version),
                         Returned,
                         Len(parent_child_mappings) - Len(parent_child_mappings'),
                         Len(component_collection) - Len(component_collection'))
         /\ UNCHANGED <<job_collection, meta_collection, db, pc>>

(* delete_component_version store call by store call, for callers that share *)
(* the database and for store calls that fail: the usage check, the delete   *)
(* of the edges and the delete of the records are three requests, and        *)
(* nothing holds the database between them.                                  *)

\* Line 201-202: the usage check.  It raises, or lets the call go on.
delete_component_version_check(type_id, identifier, version) ==
    /\ pc = Idle
    /\ IF _component_used(type_id, identifier, version)
       THEN /\ last' = Call("delete_component_version",
                            Key(type_id, identifier, version), InUse, 0, 0)
            /\ UNCHANGED pc
       ELSE /\ pc' = [at |-> "delete_edges",
                      key |-> Key(type_id, identifier, version), edges |-> 0]
            /\ UNCHANGED last
    /\ UNCHANGED collections

\* The edge delete that removes nothing.
delete_component_version_edges_kept ==
    /\ pc.at = "delete_edges"
    /\ pc' = [pc EXCEPT !.at = "delete_records"]
    /\ UNCHANGED <<collections, last>>

\* Line 204-206: delete_many on the edges whose parent is the unique id.
delete_component_version_edges ==
    /\ pc.at = "delete_edges"
    /\ parent_child_mappings' =
          delete_many(parent_child_mappings, Eq([parent |-> UniqueId(pc.key)]))
    /\ pc' = [pc EXCEPT !.at = "delete_records",
                        !.edges = Len(parent_child_mappings)
                                  - Len(parent_child_mappings')]
    /\ UNCHANGED <<component_collection, job_collection, meta_collection, db, last>>

\* The record delete that asks the usage check again and raises when it fails.
delete_component_version_records_checked ==
    /\ pc.at = "delete_records"
    /\ pc' = Idle
    /\ IF _component_used(pc.key.type_id, pc.key.identifier, pc.key.version)
       THEN /\ last' = Call("delete_component_version", pc.key, InUse, pc.edges, 0)
            /\ UNCHANGED collections
       ELSE /\ component_collection' =
                  delete_many(component_collection,
                              Eq([identifier |-> pc.key.identifier,
                                  type_id |-> pc.key.type_id,
                                  version |-> pc.key.version]))
            /\ last' = Call("delete_component_version", pc.key, Returned, pc.edges,
                            Len(component_collection) - Len(component_collection'))
            /\ UNCHANGED <<parent_child_mappings, job_collection, meta_collection, db>>

\* Line 208-214: delete_many on the records of the key, and the return.
delete_component_version_records ==
    /\ pc.at = "delete_records"
    /\ component_collection' =
          delete_many(component_collection,
                      Eq([identifier |-> pc.key.identifier,
                          type_id |-> pc.key.type_id,
                          version |-> pc.key.version]))
    /\ pc' = Idle
    /\ last' = Call("delete_component_version", pc.key, Returned, pc.edges,
                    Len(component_collection) - Len(component_collection'))
    /\ UNCHANGED <<parent_child_mappings, job_collection, meta_collection, db>>

\* The store call the delete stands before fails: nothing catches the error, so
\* the call ends with it and what its earlier store calls did stays done.
delete_component_version_fails ==
    /\ pc.at \in {"delete_edges", "delete_records"}
    /\ pc' = Idle
    /\ last' = Call("delete_component_version", pc.key, BackendError, pc.edges, 0)
    /\ UNCHANGED collections

\* A method's result: the value it returns, or the exception it raises.
Return(value) == [outcome |-> Returned, value |-> value]
Raise(exception) == [outcome |-> exception]

\* The loop "if doc[field] not in distinct_values: distinct_values.append(...)".
RECURSIVE DistinctValues(_, _, _)
DistinctValues(docs, field, distinct_values) ==
    IF docs = <<>> THEN distinct_values
    ELSE DistinctValues(
            Tail(docs), field,
            IF \E n \in 1..Len(distinct_values) : distinct_values[n] = Head(docs)[field]
            THEN distinct_values
            ELSE Append(distinct_values, Head(docs)[field]))

\* Python's sorted() on a list of integers.
RECURSIVE InsertSorted(_, _)
InsertSorted(x, s) ==
    IF s = <<>> THEN <<x>>
    ELSE IF x <= Head(s) THEN <<x>> \o s
    ELSE <<Head(s)>> \o InsertSorted(x, Tail(s))

RECURSIVE sorted(_)
sorted(s) == IF s = <<>> THEN <<>> ELSE InsertSorted(Head(s), sorted(Tail(s)))

\* One clause of an '$or': the fields equal to eq, the fields of absent missing.
Clause(eq, absent) == [eq |-> eq, absent |-> absent]

\* sorted(distinct_values)[-1], the IndexError of an empty list raised as
\* FileNotFoundError.
LastOrNotFound(s) == IF s = <<>> THEN Raise(NotFound) ELSE Return(s[Len(s)])

\* The latest version that reads the lowest element, sorted(...)[0].
get_latest_version_first(type_id, identifier, allow_hidden) ==
    LET result ==
          IF allow_hidden
          THEN find(component_collection,
                    Eq([identifier |-> identifier, type_id |-> type_id]))
          ELSE find(component_collection,
                    {Clause([identifier |-> identifier, type_id |-> type_id,
                             hidden |-> FALSE], {}),
                     Clause([identifier |-> identifier, type_id |-> type_id],
                            {"hidden"})})
        s == sorted(DistinctValues(result, "version", <<>>))
    IN  IF s = <<>> THEN Raise(NotFound) ELSE Return(s[1])

\* The latest version that, asked to allow hidden records, reads only those.
get_latest_version_hidden_only(type_id, identifier, allow_hidden) ==
    IF allow_hidden
    THEN LastOrNotFound(sorted(DistinctValues(
            find(component_collection,
                 Eq([identifier |-> identifier, type_id |-> type_id,
                     hidden |-> TRUE])),
            "version", <<>>)))
    ELSE LastOrNotFound(sorted(DistinctValues(
            find(component_collection,
                 {Clause([identifier |-> identifier, type_id |-> type_id,
                          hidden |-> FALSE], {}),
                  Clause([identifier |-> identifier, type_id |-> type_id],
                         {"hidden"})}),
            "version", <<>>)))

get_latest_version(type_id, identifier, allow_hidden) ==
    IF allow_hidden
    THEN LastOrNotFound(sorted(DistinctValues(
            find(component_collection,
                 Eq([identifier |-> identifier, type_id |-> type_id])),
            "version", <<>>)))
    ELSE LastOrNotFound(sorted(DistinctValues(
            find(component_collection,
                 {Clause([identifier |-> identifier, type_id |-> type_id,
                          hidden |-> FALSE], {}),
                  Clause([identifier |-> identifier, type_id |-> type_id],
                         {"hidden"})}),
            "version", <<>>)))

\* The version list without the "not in distinct_values" test.
show_component_versions_repeating(type_id, identifier) ==
    LET result == find(component_collection,
                       Eq([type_id |-> type_id, identifier |-> identifier]))
    IN  [n \in 1..Len(result) |-> result[n].version]

\* collection.distinct(filter=...) is read as the code reads it: the matching
\* documents, whose versions the loop then makes distinct.  The retry wrapper
\* repeats a call that raised, and none does here.
show_component_versions(type_id, identifier) ==
    DistinctValues(find(component_collection,
                        Eq([type_id |-> type_id, identifier |-> identifier])),
                   "version", <<>>)

_get_component(type_id, identifier, version, allow_hidden) ==
    IF ~allow_hidden
    THEN find_one(component_collection,
                  {Clause([identifier |-> identifier, type_id |-> type_id,
                           version |-> version, hidden |-> FALSE], {}),
                   Clause([identifier |-> identifier, type_id |-> type_id,
                           version |-> version], {"hidden"})})
    ELSE find_one(component_collection,
                  Eq([identifier |-> identifier, type_id |-> type_id,
                      version |-> version]))

\* The parents query that lists each parent once.
get_component_version_parents_distinct(unique_id) ==
    DistinctValues(find(parent_child_mappings, Eq([child |-> unique_id])),
                   "parent", <<>>)

get_component_version_parents(unique_id) ==
    LET r == find(parent_child_mappings, Eq([child |-> unique_id]))
    IN  [n \in 1..Len(r) |-> r[n].parent]

\* The replace that inserts info when no record matches (an upsert).
_replace_object_upserting(info, identifier, type_id, version) ==
    /\ component_collection' =
          LET filter == Eq([identifier |-> identifier, type_id |-> type_id,
                            version |-> version])
          IN  IF FirstMatch(component_collection, filter) = 0
              THEN insert_one(component_collection, info)
              ELSE find_one_and_replace(component_collection, filter, info)
    /\ last' = Call("_replace_object",
                  [info |-> info, key |-> Key(type_id, identifier, version)],
                  Returned, 0, 0)
    /\ UNCHANGED <<parent_child_mappings, job_collection, meta_collection, db, pc>>

_replace_object(info, identifier, type_id, version) ==
    /\ component_collection' =
          find_one_and_replace(
              component_collection,
              Eq([identifier |-> identifier, type_id |-> type_id, version |-> version]),
              info)
    /\ last' = Call("_replace_object",
                  [info |-> info, key |-> Key(type_id, identifier, version)],
                  Returned, 0, 0)
    /\ UNCHANGED <<parent_child_mappings, job_collection, meta_collection, db, pc>>

_update_object(identifier, type_id, key, value, version) ==
    /\ component_collection' =
          update_one_set(
              component_collection,
              Eq([identifier |-> identifier, type_id |-> type_id, version |-> version]),
              key, value)
    /\ last' = Call("_update_object",
                  [key |-> Key(type_id, identifier, version), field |-> key,
                   value |-> value],
                  Returned, 0, 0)
    /\ UNCHANGED <<parent_child_mappings, job_collection, meta_collection, db, pc>>

\* The hide whose filter leaves out the version.
hide_component_version_any_version(type_id, identifier, version) ==
    /\ component_collection' =
          update_one_set(component_collection,
                         Eq([type_id |-> type_id, identifier |-> identifier]),
                         "hidden", TRUE)
    /\ last' = Call("hide_component_version", Key(type_id, identifier, version),
                  Returned, 0, 0)
    /\ UNCHANGED <<parent_child_mappings, job_collection, meta_collection, db, pc>>

\* The hide that sets hidden to the opposite of what the record holds.
hide_component_version_toggling(type_id, identifier, version) ==
    /\ component_collection' =
          LET filter == Eq([type_id |-> type_id, identifier |-> identifier,
                            version |-> version])
              n == FirstMatch(component_collection, filter)
          IN  IF n = 0 THEN component_collection
              ELSE [component_collection EXCEPT ![n] =
                      SetField(@, "hidden", "hidden" \notin DOMAIN @ \/ ~@.hidden)]
    /\ last' = Call("hide_component_version", Key(type_id, identifier, version),
                  Returned, 0, 0)
    /\ UNCHANGED <<parent_child_mappings, job_collection, meta_collection, db, pc>>

hide_component_version(type_id, identifier, version) ==
    /\ component_collection' =
          update_one_set(
              component_collection,
              Eq([type_id |-> type_id, identifier |-> identifier, version |-> version]),
              "hidden", TRUE)
    /\ last' = Call("hide_component_version", Key(type_id, identifier, version),
                  Returned, 0, 0)
    /\ UNCHANGED <<parent_child_mappings, job_collection, meta_collection, db, pc>>

update_job(identifier, key, value) ==
    /\ job_collection' = update_one_set(job_collection,
                                        Eq([identifier |-> identifier]), key, value)
    /\ last' = Call("update_job",
                  [identifier |-> identifier, key |-> key, value |-> value],
                  Returned, 0, 0)
    /\ UNCHANGED <<component_collection, parent_child_mappings, meta_collection, db, pc>>

show_job(job_id) == find_one(job_collection, Eq([identifier |-> job_id]))

\* The append that sets the stream to the message instead of pushing it.
write_output_to_job_overwriting(identifier, msg, stream) ==
    IF stream \notin {"stdout", "stderr"}
    THEN /\ last' = Call("write_output_to_job",
                       [identifier |-> identifier, msg |-> msg, stream |-> stream],
                       InvalidArgument, 0, 0)
         /\ UNCHANGED <<collections, pc>>
    ELSE /\ job_collection' =
               update_one_set(job_collection, Eq([identifier |-> identifier]),
                              stream, <<msg>>)
         /\ last' = Call("write_output_to_job",
                       [identifier |-> identifier, msg |-> msg, stream |-> stream],
                       Returned, 0, 0)
         /\ UNCHANGED <<component_collection, parent_child_mappings, meta_collection, db, pc>>

\* The append without the test of the stream name.
write_output_to_job_any_stream(identifier, msg, stream) ==
    /\ job_collection' =
          update_one_push(job_collection, Eq([identifier |-> identifier]), stream, msg)
    /\ last' = Call("write_output_to_job",
                  [identifier |-> identifier, msg |-> msg, stream |-> stream],
                  Returned, 0, 0)
    /\ UNCHANGED <<component_collection, parent_child_mappings, meta_collection, db, pc>>

write_output_to_job(identifier, msg, stream) ==
    IF stream \notin {"stdout", "stderr"}
    THEN /\ last' = Call("write_output_to_job",
                       [identifier |-> identifier, msg |-> msg, stream |-> stream],
                       InvalidArgument, 0, 0)
         /\ UNCHANGED <<collections, pc>>
    ELSE /\ job_collection' =
               update_one_push(job_collection, Eq([identifier |-> identifier]),
                               stream, msg)
         /\ last' = Call("write_output_to_job",
                       [identifier |-> identifier, msg |-> msg, stream |-> stream],
                       Returned, 0, 0)
         /\ UNCHANGED <<component_collection, parent_child_mappings, meta_collection, db, pc>>

\* A Python integer among the string values of job records: equal to the same
\* integer and to no string.
PyInt(n) == "int:" \o ToString(n)

\* status=None, the default of show_jobs.
NoStatus == "<None>"

\* A Python dict display {k1: v1, k2: v2, ...}: a key written twice keeps the
\* value written last.
dict(items) ==
    [k \in {items[n][1] : n \in 1..Len(items)} |->
        items[CHOOSE n \in 1..Len(items) :
                 /\ items[n][1] = k
                 /\ \A m \in (n + 1)..Len(items) : items[m][1] # k][2]]

\* The filter is the dict display of line 174: its first 'status' entry, the
\* dict made of the argument, is overwritten by the later 'status': 1.
show_jobs(status) ==
    find(job_collection,
         Eq(dict(<<
             <<"status", IF status = NoStatus THEN <<>> ELSE [status |-> status]>>,
             <<"identifier", PyInt(1)>>,
             <<"_id", PyInt(0)>>,
             <<"method", PyInt(1)>>,
             <<"status", PyInt(1)>>,
             <<"time", PyInt(1)>> >>)))

----------------------------------------------------------------------------
(* Lineage and guarded deletion.                                           *)

TotalDocs == Len(component_collection) + Len(parent_child_mappings)
             + Len(job_collection) + Len(meta_collection)

\* Records registered with no hidden field, with or without members.
LineageInfos ==
    {k : k \in ComponentKeys}
    \cup {SetField(k, "members", UniqueId(m)) :
            k \in ComponentKeys, m \in {Key("model", "clf", 0), Key("dataset", "x", 0)}}

UniqueIds == {UniqueId(k) : k \in ComponentKeys}

NextLineage ==
    \/ \E info \in LineageInfos : TotalDocs < MaxDocs /\ create_component(info)
    \/ \E p \in UniqueIds : \E c \in UniqueIds \ {p} :
          TotalDocs < MaxDocs /\ create_parent_child(p, c)
    \/ \E k \in CalledKeys :
          delete_component_version(k.type_id, k.identifier, k.version)
    \/ TotalDocs < MaxDocs /\ create_job([identifier |-> "job1", status |-> "pending"])
    \/ TotalDocs < MaxDocs /\ create_metadata("key", "value")

SpecLineage == Init /\ [][NextLineage]_vars

----------------------------------------------------------------------------
(* Versions and visibility.                                                *)

\* Records registered with the hidden field unset, or set to true.
VisibilityInfos ==
    ComponentKeys \cup {SetField(k, "hidden", TRUE) : k \in ComponentKeys}

\* The documents a caller replaces the record of key k by: the same component,
\* its hidden field unset, false or true.
ReplacementsOf(k) == {k} \cup {SetField(k, "hidden", h) : h \in BOOLEAN}

NextVisibility ==
    \/ \E info \in VisibilityInfos : TotalDocs < MaxDocs /\ create_component(info)
    \/ \E k \in CalledKeys :
          hide_component_version(k.type_id, k.identifier, k.version)
    \/ \E k \in CalledKeys :
          delete_component_version(k.type_id, k.identifier, k.version)
    \/ \E k \in CalledKeys : \E info \in ReplacementsOf(k) :
          _replace_object(info, k.identifier, k.type_id, k.version)
    \/ \E k \in CalledKeys, value \in BOOLEAN :
          _update_object(k.identifier, k.type_id, "hidden", value, k.version)

SpecVisibility == Init /\ [][NextVisibility]_vars

----------------------------------------------------------------------------
(* Jobs and their output streams.                                          *)

JobIds == {"job1", "job2"}
JobStatuses == {"pending", "success"}
Messages == {"hello", "world"}
StreamNames == {"stdout", "stderr", "stdin"}

\* Jobs are registered pending and without output.
JobInfos == {[identifier |-> id, status |-> "pending"] : id \in JobIds}

\* The messages job holds in stream, none when the field is absent.
StreamOf(job, stream) == IF stream \in DOMAIN job THEN job[stream] ELSE <<>>

RECURSIVE OutputCount(_)
OutputCount(jobs) ==
    IF jobs = <<>> THEN 0
    ELSE Len(StreamOf(Head(jobs), "stdout")) + Len(StreamOf(Head(jobs), "stderr"))
         + Len(StreamOf(Head(jobs), "stdin")) + OutputCount(Tail(jobs))

NextJobs ==
    \/ \E info \in JobInfos : Len(job_collection) < MaxJobs /\ create_job(info)
    \/ \E id \in JobIds, status \in JobStatuses : update_job(id, "status", status)
    \/ \E id \in JobIds, msg \in Messages, stream \in StreamNames :
          OutputCount(job_collection) < MaxOutput /\ write_output_to_job(id, msg, stream)

SpecJobs == Init /\ [][NextJobs]_vars

----------------------------------------------------------------------------
(* Listing the jobs.                                                       *)

\* Jobs as the orchestration layer registers them, and one whose identifier,
\* method, status and time are the integer 1 and whose _id is the integer 0.
ListedJobInfos ==
    {[identifier |-> id, method |-> "fit", status |-> "pending", time |-> "t0"] :
        id \in JobIds}
    \cup {[_id |-> PyInt(0), identifier |-> PyInt(1), method |-> PyInt(1),
           status |-> PyInt(1), time |-> PyInt(1)]}

ListedStatuses == JobStatuses \cup {PyInt(1)}

NextListing ==
    \/ \E info \in ListedJobInfos : Len(job_collection) < MaxJobs /\ create_job(info)
    \/ \E id \in JobIds \cup {PyInt(1)}, status \in ListedStatuses :
          update_job(id, "status", status)

SpecListing == Init /\ [][NextListing]_vars

----------------------------------------------------------------------------
(* Dropping the metadata.                                                  *)

\* The store is called on the collections that exist: once a collection is
\* deleted, nothing here sets it up again.
NextDrop ==
    \/ \E k \in {Key("model", "clf", 0), Key("dataset", "x", 0)} :
          /\ TotalDocs < MaxDocs
          /\ "_objects" \in db
          /\ create_component(k)
    \/ /\ TotalDocs < MaxDocs
       /\ "_parent_child_mappings" \in db
       /\ create_parent_child("model/clf/0", "dataset/x/0")
    \/ \E info \in JobInfos :
          TotalDocs < MaxDocs /\ "_jobs" \in db /\ create_job(info)
    \/ \E value \in {"a", "b"} :
          TotalDocs < MaxDocs /\ "_meta" \in db /\ create_metadata("key", value)
    \/ \E force \in BOOLEAN, confirm \in BOOLEAN : drop(force, confirm)

SpecDrop == Init /\ [][NextDrop]_vars

----------------------------------------------------------------------------
(* Callers that share the database.                                        *)

\* Version 0 of model/clf, and a dataset that names it in its members.
RaceInfos ==
    {Key("model", "clf", 0),
     SetField(Key("dataset", "x", 0), "members", "model/clf/0")}

RaceKeys == {Key("model", "clf", 0), Key("dataset", "x", 0)}

\* One caller deletes, store call by store call; the others register records
\* and edges, each with one store call, whenever they like.
NextRace ==
    \/ \E info \in RaceInfos : TotalDocs < MaxDocs /\ create_component(info)
    \/ \E p \in {UniqueId(k) : k \in RaceKeys} :
          \E c \in {UniqueId(k) : k \in RaceKeys} \ {p} :
             TotalDocs < MaxDocs /\ create_parent_child(p, c)
    \/ \E k \in RaceKeys :
          delete_component_version_check(k.type_id, k.identifier, k.version)
    \/ delete_component_version_edges
    \/ delete_component_version_records

SpecRace == Init /\ [][NextRace]_vars

----------------------------------------------------------------------------
(* Store calls that fail.                                                  *)

\* One caller: nothing else is called while delete_component_version runs.
NextFailure ==
    \/ \E info \in LineageInfos :
          pc = Idle /\ TotalDocs < MaxDocs /\ create_component(info)
    \/ \E p \in UniqueIds : \E c \in UniqueIds \ {p} :
          pc = Idle /\ TotalDocs < MaxDocs /\ create_parent_child(p, c)
    \/ \E k \in CalledKeys :
          delete_component_version_check(k.type_id, k.identifier, k.version)
    \/ delete_component_version_edges
    \/ delete_component_version_records
    \/ delete_component_version_fails

SpecFailure == Init /\ [][NextFailure]_vars

----------------------------------------------------------------------------
(* Key/value metadata.                                                     *)

MetaKeys == {"k1", "k2"}
MetaValues == {"a", "b"}

NextMeta ==
    \/ \E key \in MetaKeys, value \in MetaValues :
          TotalDocs < MaxDocs /\ create_metadata(key, value)
    \/ \E key \in MetaKeys, value \in MetaValues : update_metadata(key, value)

SpecMeta == Init /\ [][NextMeta]_vars

----------------------------------------------------------------------------
(* What the properties below speak about, read off the collections.        *)

HasKey(doc, k) ==
    /\ doc.type_id = k.type_id
    /\ doc.identifier = k.identifier
    /\ doc.version = k.version

\* The stored component records of key k, in order.
RecordsOf(coll, k) == SelectSeq(coll, LAMBDA d : HasKey(d, k))

Stored(k) == RecordsOf(component_collection, k) # <<>>

\* Some stored component names k's unique id in its members field.
Referenced(k) ==
    \E n \in 1..Len(component_collection) :
        /\ "members" \in DOMAIN component_collection[n]
        /\ component_collection[n].members = UniqueId(k)

\* The stored lineage edges whose parent is the unique id u, in order.
EdgesFrom(coll, u) == SelectSeq(coll, LAMBDA e : e.parent = u)

IsParent(k) == EdgesFrom(parent_child_mappings, UniqueId(k)) # <<>>

IsChild(k) ==
    \E n \in 1..Len(parent_child_mappings) :
        parent_child_mappings[n].child = UniqueId(k)

\* The step is a call of method op with arguments args.
Called(op, args) == last'.op = op /\ last'.args = args

Delete(k) == Called("delete_component_version", k)

\* C1: when some stored component's members field equals the unique id of
\* (t, i, v), delete_component_version(t, i, v) raises the in-use exception and
\* leaves the component collection and the lineage edges as they were.
C1_ReferencedVersionIsNotDeleted ==
    [][\A k \in CalledKeys :
          (Delete(k) /\ Referenced(k)) =>
              /\ last'.outcome = InUse
              /\ component_collection' = component_collection
              /\ parent_child_mappings' = parent_child_mappings]_vars

C1_Witness ==
    /\ last.op = "delete_component_version"
    /\ last.args = Key("model", "clf", 0)
    /\ last.outcome = InUse
    /\ Referenced(Key("model", "clf", 0))
    /\ Stored(Key("model", "clf", 0))

C3_ChildIsNotDeleted ==
    [][\A k \in CalledKeys :
          (Delete(k) /\ IsChild(k)) =>
              RecordsOf(component_collection', k) = RecordsOf(component_collection, k)]_vars

\* C4: when delete_component_version(t, i, v) returns, no record of (t, i, v)
\* and no edge with parent "t/i/v" is left, and the records of every other key,
\* the edges of every other parent, the jobs and the metadata are unchanged.
C4_DeleteFrame ==
    [][\A k \in CalledKeys :
          (Delete(k) /\ last'.outcome = Returned) =>
              /\ RecordsOf(component_collection', k) = <<>>
              /\ EdgesFrom(parent_child_mappings', UniqueId(k)) = <<>>
              /\ SelectSeq(component_collection', LAMBDA d : ~HasKey(d, k))
                    = SelectSeq(component_collection, LAMBDA d : ~HasKey(d, k))
              /\ SelectSeq(parent_child_mappings', LAMBDA e : e.parent # UniqueId(k))
                    = SelectSeq(parent_child_mappings, LAMBDA e : e.parent # UniqueId(k))
              /\ job_collection' = job_collection
              /\ meta_collection' = meta_collection]_vars

\* A record and an edge were deleted; another version of the same component is
\* still stored.
C4_Witness ==
    /\ last.op = "delete_component_version"
    /\ last.args = Key("model", "clf", 0)
    /\ last.outcome = Returned
    /\ last.records = 1
    /\ last.edges = 1
    /\ ~Stored(Key("model", "clf", 0))
    /\ Stored(Key("model", "clf", 1))

\* The stored records of component (t, i): their positions, and those whose
\* hidden field is false or absent.
PositionsOf(t, i) ==
    {n \in 1..Len(component_collection) :
        /\ component_collection[n].type_id = t
        /\ component_collection[n].identifier = i}

IsVisible(doc) == "hidden" \notin DOMAIN doc \/ doc.hidden = FALSE

VersionsOf(t, i) == {component_collection[n].version : n \in PositionsOf(t, i)}

VisibleVersionsOf(t, i) ==
    {component_collection[n].version :
        n \in {m \in PositionsOf(t, i) : IsVisible(component_collection[m])}}

Max(S) == CHOOSE x \in S : \A y \in S : y <= x

\* C5: get_latest_version(t, i) returns the greatest version among the stored
\* records of (t, i) whose hidden field is false or absent and raises
\* FileNotFoundError exactly when there is none; with allow_hidden it returns the
\* greatest version among all stored records of (t, i).
C5_LatestVersion ==
    \A t \in TypeIds, i \in Identifiers :
        /\ get_latest_version(t, i, FALSE) =
              IF VisibleVersionsOf(t, i) = {} THEN Raise(NotFound)
              ELSE Return(Max(VisibleVersionsOf(t, i)))
        /\ get_latest_version(t, i, TRUE) =
              IF VersionsOf(t, i) = {} THEN Raise(NotFound)
              ELSE Return(Max(VersionsOf(t, i)))

\* Versions 0 and 1 of model/clf are stored and both have been hidden.
C5_Witness ==
    /\ last.op = "hide_component_version"
    /\ VersionsOf("model", "clf") = {0, 1}
    /\ get_latest_version("model", "clf", FALSE) = Raise(NotFound)
    /\ get_latest_version("model", "clf", TRUE) = Return(1)

\* The lookups of key k: the filtered one finds nothing, the other a record of k.
HiddenFromLookup(k) ==
    LET r == _get_component(k.type_id, k.identifier, k.version, TRUE)
    IN  /\ r # None
        /\ HasKey(r, k)
        /\ _get_component(k.type_id, k.identifier, k.version, FALSE) = None

\* C6 as stated: after hide_component_version on any stored key the filtered
\* lookup of the key returns None and the unfiltered one a record of the key.
\* (The call neither adds nor removes a record, so the key is stored after it
\* exactly when it was stored before it.)
C6_HideHidesEveryStoredKey ==
    (last.op = "hide_component_version" /\ Stored(last.args))
        => HiddenFromLookup(last.args)

\* Key k is stored and every stored record of k has hidden = true.
AllHidden(k) ==
    /\ Stored(k)
    /\ \A n \in 1..Len(component_collection) :
          HasKey(component_collection[n], k) => ~IsVisible(component_collection[n])

\* C6 amended: when exactly one stored record has the key (t, i, v), after
\* hide_component_version(t, i, v) the filtered lookup returns None and the
\* unfiltered one the record; and the lookups answer so in every state in which
\* the key is stored and each of its records has hidden = true, that is until
\* such a record is replaced, deleted or has its hidden field updated, or a
\* visible record of the key is created.
C6_HideHidesTheOnlyRecord ==
    /\ (last.op = "hide_component_version"
          /\ Len(RecordsOf(component_collection, last.args)) = 1)
       => /\ HiddenFromLookup(last.args)
          /\ _get_component(last.args.type_id, last.args.identifier,
                            last.args.version, TRUE)
                = RecordsOf(component_collection, last.args)[1]
    /\ \A k \in CalledKeys : AllHidden(k) => HiddenFromLookup(k)

\* The only record of model/clf/0 has just been hidden.
C6_Witness ==
    /\ last.op = "hide_component_version"
    /\ last.args = Key("model", "clf", 0)
    /\ Len(RecordsOf(component_collection, Key("model", "clf", 0))) = 1
    /\ RecordsOf(component_collection, Key("model", "clf", 0))[1].hidden = TRUE
    /\ HiddenFromLookup(Key("model", "clf", 0))

\* Every stored record whose hidden field is false or absent has its key found
\* by the filtered lookup, which returns such a record of that key.
VisibleRecordsAreFound ==
    \A n \in 1..Len(component_collection) :
        IsVisible(component_collection[n]) =>
            LET r == _get_component(component_collection[n].type_id,
                                    component_collection[n].identifier,
                                    component_collection[n].version, FALSE)
            IN  /\ r # None
                /\ HasKey(r, component_collection[n])
                /\ IsVisible(r)
                /\ \E m \in 1..Len(component_collection) : component_collection[m] = r

\* C7: create_component stores hidden = false on a record given without the
\* field, and every stored record whose hidden field is false or absent is found
\* by _get_component with allow_hidden = false.
C7_UnsetHiddenIsVisible ==
    /\ (last.op = "create_component" /\ "hidden" \notin DOMAIN last.args.info) =>
          /\ component_collection # <<>>
          /\ component_collection[Len(component_collection)]
                = [type_id |-> last.args.info.type_id,
                   identifier |-> last.args.info.identifier,
                   version |-> last.args.info.version, hidden |-> FALSE]
    /\ VisibleRecordsAreFound

\* A record given without hidden has just been stored and the lookup returns it.
C7_Witness ==
    /\ last.op = "create_component"
    /\ last.args.info = Key("dataset", "x", 0)
    /\ Len(component_collection) = 1
    /\ component_collection[1].hidden = FALSE
    /\ _get_component("dataset", "x", 0, FALSE) = component_collection[1]

\* C8: show_component_versions(t, i) lists exactly the versions of the stored
\* records of (t, i), hidden or not, each once.
C8_VersionsListedOnce ==
    \A t \in TypeIds, i \in Identifiers :
        LET r == show_component_versions(t, i)
        IN  /\ {r[n] : n \in 1..Len(r)} = VersionsOf(t, i)
            /\ \A m, n \in 1..Len(r) : m # n => r[m] # r[n]

\* Two records share version 0 of model/clf, one of them hidden, beside version 1.
C8_Witness ==
    /\ Len(RecordsOf(component_collection, Key("model", "clf", 0))) = 2
    /\ \E n \in PositionsOf("model", "clf") : ~IsVisible(component_collection[n])
    /\ Stored(Key("model", "clf", 1))
    /\ Len(show_component_versions("model", "clf")) = 2

\* C9: for a stored job and a stream among stdout and stderr,
\* write_output_to_job puts its message at the end of that stream, keeping the
\* earlier messages in their order, and changes neither the other stream nor
\* any other job.
C9_OutputIsAppended ==
    [][\A id \in JobIds, stream \in {"stdout", "stderr"} :
          (/\ last'.op = "write_output_to_job"
           /\ last'.args.identifier = id
           /\ last'.args.stream = stream
           /\ get_job(id) # None) =>
              /\ last'.outcome = Returned
              /\ get_job(id)' # None
              /\ StreamOf(get_job(id)', stream)
                    = StreamOf(get_job(id), stream) \o <<last'.args.msg>>
              /\ \A other \in {"stdout", "stderr"} \ {stream} :
                    /\ other \in DOMAIN get_job(id)' <=> other \in DOMAIN get_job(id)
                    /\ StreamOf(get_job(id)', other) = StreamOf(get_job(id), other)
              /\ get_job(id)'.status = get_job(id).status
              /\ Len(job_collection') = Len(job_collection)
              /\ \A n \in 1..Len(job_collection) :
                    job_collection[n].identifier # id
                        => job_collection'[n] = job_collection[n]]_vars

\* "hello" then "world" were written to the stdout of job1.
C9_Witness ==
    /\ last.op = "write_output_to_job"
    /\ last.args = [identifier |-> "job1", msg |-> "world", stream |-> "stdout"]
    /\ get_job("job1") # None
    /\ StreamOf(get_job("job1"), "stdout") = <<"hello", "world">>

\* C10: write_output_to_job with a stream name other than stdout and stderr
\* raises ValueError and leaves every job record unchanged.
C10_UnknownStreamIsRefused ==
    [][(/\ last'.op = "write_output_to_job"
        /\ last'.args.stream \notin {"stdout", "stderr"}) =>
           /\ last'.outcome = InvalidArgument
           /\ job_collection' = job_collection]_vars

\* A write to "stdin" of a stored job has just been refused.
C10_Witness ==
    /\ last.op = "write_output_to_job"
    /\ last.args.stream = "stdin"
    /\ last.outcome = InvalidArgument
    /\ get_job(last.args.identifier) # None

\* C11: show_jobs(status=s) returns exactly the stored jobs whose status is s,
\* and show_jobs() returns every stored job; so a job registered by create_job
\* and given status s by update_job is in both lists.
C11_JobsListedByStatus ==
    /\ \A s \in ListedStatuses :
          show_jobs(s) = SelectSeq(job_collection, LAMBDA j : j.status = s)
    /\ show_jobs(NoStatus) = job_collection
    /\ (last.op = "update_job" /\ get_job(last.args.identifier) # None) =>
          /\ \E n \in 1..Len(show_jobs(NoStatus)) :
                show_jobs(NoStatus)[n] = get_job(last.args.identifier)
          /\ \E n \in 1..Len(show_jobs(last.args.value)) :
                show_jobs(last.args.value)[n] = get_job(last.args.identifier)

\* C12: drop(force=false) whose confirmation is answered no deletes nothing:
\* every managed collection still exists, its documents unchanged.
C12_UnconfirmedDropDeletesNothing ==
    [][(last'.op = "drop" /\ ~last'.args.force /\ ~last'.args.confirm) =>
          /\ db' = db
          /\ ManagedCollections \subseteq db'
          /\ meta_collection' = meta_collection
          /\ component_collection' = component_collection
          /\ job_collection' = job_collection
          /\ parent_child_mappings' = parent_child_mappings]_vars

\* C13: after a drop that proceeds (force, or the confirmation accepted) none
\* of _meta, _cdc_tables, _objects, _jobs, _parent_child_mappings exists.
C13_DropDeletesAllFive ==
    (last.op = "drop" /\ (last.args.force \/ last.args.confirm)) =>
        db \cap ManagedCollections = {}

\* How many times value x occurs in the list s.
Occurrences(s, x) == Cardinality({n \in 1..Len(s) : s[n] = x})

\* How many stored lineage edges go from parent p to child c.
EdgeCount(p, c) ==
    Cardinality({n \in 1..Len(parent_child_mappings) :
                    /\ parent_child_mappings[n].parent = p
                    /\ parent_child_mappings[n].child = c})

\* C14: whatever create_parent_child and delete_component_version calls were
\* made, get_component_version_parents(c) holds each parent p as many times as
\* there are stored edges from p to c and holds nothing else: an edge added
\* twice gives its parent twice, an edge to another child gives nothing.
C14_ParentsOfChild ==
    \A c \in UniqueIds \cup {"dataset/clf/1"} :
        LET r == get_component_version_parents(c)
        IN  /\ \A q \in UniqueIds : Occurrences(r, q) = EdgeCount(q, c)
            /\ Len(r) = Cardinality({n \in 1..Len(parent_child_mappings) :
                                        parent_child_mappings[n].child = c})

\* The edge model/clf/0 -> dataset/x/0 is stored twice and listed twice, after a
\* delete of model/clf/1 removed the edge that went from it to another child.
C14_Witness ==
    /\ last.op = "delete_component_version"
    /\ last.args = Key("model", "clf", 1)
    /\ last.edges = 1
    /\ Len(parent_child_mappings) = 2
    /\ get_component_version_parents("dataset/x/0") = <<"model/clf/0", "model/clf/0">>

\* The step is the last store call of a delete_component_version in progress.
DeleteCompletes == pc.at = "delete_records" /\ pc' = Idle

\* C15: the usage check and the deletes of delete_component_version are
\* separate store calls.  A call goes past its check only when no members field
\* names its key, and past its check it does not look at the members again: its
\* last store call returns and removes every record of its key and no
\* other record, also when a component naming the key in its members has been
\* registered since that test; that record is left, naming a version that is
\* no longer stored.
C15_DeletePastItsCheckCompletes ==
    [][/\ (pc = Idle /\ pc' # Idle) => ~Referenced(pc'.key)
       /\ DeleteCompletes =>
             /\ last'.op = "delete_component_version"
             /\ last'.args = pc.key
             /\ last'.outcome = Returned
             /\ RecordsOf(component_collection', pc.key) = <<>>
             /\ SelectSeq(component_collection', LAMBDA d : ~HasKey(d, pc.key))
                   = SelectSeq(component_collection, LAMBDA d : ~HasKey(d, pc.key))]_vars

\* delete_component_version("model", "clf", 0) has returned and removed the
\* record, and dataset/x/0, whose members is "model/clf/0", is stored: it was
\* registered after the usage test, which would have raised otherwise.
C15_Witness ==
    /\ pc = Idle
    /\ last.op = "delete_component_version"
    /\ last.args = Key("model", "clf", 0)
    /\ last.outcome = Returned
    /\ last.records = 1
    /\ Referenced(Key("model", "clf", 0))
    /\ ~Stored(Key("model", "clf", 0))
    /\ Stored(Key("dataset", "x", 0))

\* C16: when the delete of the edges has been made and the delete of the records
\* fails, delete_component_version ends with the store's error and rolls nothing
\* back: the records of (t, i, v) are as they were before the call, and no edge
\* whose parent is "t/i/v" is left or put back.
C16_PartialFailureIsNotRolledBack ==
    [][(pc.at = "delete_records" /\ pc' = Idle /\ last'.outcome # Returned) =>
          /\ last'.op = "delete_component_version"
          /\ last'.args = pc.key
          /\ last'.outcome = BackendError
          /\ last'.edges = pc.edges
          /\ component_collection' = component_collection
          /\ parent_child_mappings' = parent_child_mappings
          /\ EdgesFrom(parent_child_mappings', UniqueId(pc.key)) = <<>>]_vars

\* delete_component_version("model", "clf", 0) removed the one edge that went
\* from model/clf/0 and then failed: the record is stored, the edge is gone.
C16_Witness ==
    /\ pc = Idle
    /\ last.op = "delete_component_version"
    /\ last.args = Key("model", "clf", 0)
    /\ last.outcome = BackendError
    /\ last.edges = 1
    /\ Stored(Key("model", "clf", 0))
    /\ ~IsParent(Key("model", "clf", 0))

\* C17: no two stored metadata records share a key, and after create_metadata
\* or update_metadata of a stored key get_metadata returns the value just given.
C17_OneRecordPerKey ==
    /\ \A m, n \in 1..Len(meta_collection) :
          m # n => meta_collection[m].key # meta_collection[n].key
    /\ (/\ last.op \in {"create_metadata", "update_metadata"}
        /\ get_metadata(last.args.key) # None)
       => get_metadata(last.args.key).value = last.args.value

\* C18: hide_component_version(t, i, v) called again right after itself changes
\* nothing, so that two calls leave the store as one does; and a call changes
\* no collection but the components, adds and removes no record, and changes
\* at most one record, which has the key (t, i, v) and keeps every field but
\* hidden, set to true.
C18_HideIsIdempotent ==
    [][last'.op = "hide_component_version" =>
          LET k == last'.args
          IN  /\ (last.op = "hide_component_version" /\ last.args = k)
                    => component_collection' = component_collection
              /\ parent_child_mappings' = parent_child_mappings
              /\ job_collection' = job_collection
              /\ meta_collection' = meta_collection
              /\ db' = db
              /\ Len(component_collection') = Len(component_collection)
              /\ \A n \in 1..Len(component_collection) :
                    \/ component_collection'[n] = component_collection[n]
                    \/ /\ HasKey(component_collection[n], k)
                       /\ component_collection'[n] =
                             SetField(component_collection[n], "hidden", TRUE)
                       /\ \A m \in 1..Len(component_collection) \ {n} :
                             component_collection'[m] = component_collection[m]]_vars

\* hide_component_version("model", "clf", 0) has been called on a store holding
\* two records of that key and one of another: the first is hidden, the
\* second, which no repetition of the call reaches, is not.
C18_Witness ==
    /\ last.op = "hide_component_version"
    /\ last.args = Key("model", "clf", 0)
    /\ Len(component_collection) = 3
    /\ Len(RecordsOf(component_collection, Key("model", "clf", 0))) = 2
    /\ RecordsOf(component_collection, Key("model", "clf", 0))[1].hidden = TRUE
    /\ RecordsOf(component_collection, Key("model", "clf", 0))[2].hidden = FALSE

\* C19: _replace_object(info, i, t, v) returns without an error; when no stored
\* record has the key (t, i, v) it leaves the component collection as it was,
\* and when one has, one record of that key becomes info, whole, and every
\* other record stays as it was.  No other collection changes.
C19_ReplaceObject ==
    [][last'.op = "_replace_object" =>
          LET k == last'.args.key
          IN  /\ last'.outcome = Returned
              /\ parent_child_mappings' = parent_child_mappings
              /\ job_collection' = job_collection
              /\ meta_collection' = meta_collection
              /\ db' = db
              /\ ~Stored(k) => component_collection' = component_collection
              /\ Stored(k) =>
                    /\ Len(component_collection') = Len(component_collection)
                    /\ \E n \in 1..Len(component_collection) :
                          /\ HasKey(component_collection[n], k)
                          /\ component_collection'[n] = last'.args.info
                          /\ \A m \in 1..Len(component_collection) \ {n} :
                                component_collection'[m] = component_collection[m]]_vars

\* _replace_object has just been called for dataset/x/0, which is not stored,
\* with a record of it: the two records the store holds are still all it holds.
C19_Witness ==
    /\ last.op = "_replace_object"
    /\ last.args.key = Key("dataset", "x", 0)
    /\ last.args.info = Key("dataset", "x", 0)
    /\ ~Stored(Key("dataset", "x", 0))
    /\ Len(component_collection) = 2

\* C20: for every (t, i), when get_latest_version(t, i, allow_hidden=false)
\* returns n, get_latest_version(t, i, allow_hidden=true) returns as well, and
\* returns a version >= n; and a version returned by either call is the
\* version of a stored record of (t, i).
C20_LatestVersionsAgree ==
    \A t \in TypeIds, i \in Identifiers :
        LET visible == get_latest_version(t, i, FALSE)
            any == get_latest_version(t, i, TRUE)
        IN  /\ visible.outcome = Returned =>
                  /\ any.outcome = Returned
                  /\ any.value >= visible.value
            /\ \A r \in {visible, any} :
                  r.outcome = Returned =>
                      \E n \in 1..Len(component_collection) :
                          /\ component_collection[n].type_id = t
                          /\ component_collection[n].identifier = i
                          /\ component_collection[n].version = r.value

\* Version 0 of model/clf is visible and version 1 hidden: the two calls
\* return 0 and 1.
C20_Witness ==
    /\ get_latest_version("model", "clf", FALSE) = Return(0)
    /\ get_latest_version("model", "clf", TRUE) = Return(1)
    /\ Stored(Key("model", "clf", 0))
    /\ Stored(Key("model", "clf", 1))

====
